---------------------------- MODULE Spec2Model ----------------------------
(***************************************************************************)
(* The hand-landmark streaming bridge of signbridge-app, as its Unity      *)
(* consumer implements it:                                                 *)
(*   SignBridgeConnector   (src/unnamed/part_005)                          *)
(*   SignBridgeTestManager (src/hand-detection-3d/unity/...TestManager.cs) *)
(*   the session endpoints of the backend (src/unnamed/part_004)           *)
(*                                                                         *)
(* Text is a sequence of one-character strings, so that Remove, Split and  *)
(* float.Parse are computed on the characters as the C# code computes     *)
(* them.  Time is Time.time in whole seconds.                              *)
(***************************************************************************)
EXTENDS Integers, Sequences, FiniteSets, TLC

VARIABLES
    isRecognizing,     \* SignBridgeConnector.isRecognizing
    currentSessionId,  \* SignBridgeConnector.currentSessionId ("" is <<>>)
    sessionRequest,    \* StartLearningSession coroutine: "pending" | "done"
    udpData,           \* UDPReceive.data, the latest datagram's text
    nSent,             \* number of /api/recognize/advanced requests sent
    now,               \* Time.time, seconds
    isTesting,         \* SignBridgeTestManager.isTesting
    lastDataTime,      \* SignBridgeTestManager.lastDataTime
    statusText,        \* SignBridgeTestManager.statusText.text
    testPc,            \* where the RunTest coroutine is suspended
    \* history variables (observers of the run, read by no action's guard
    \* except the bounds):
    sentForCurrent,    \* requests sent for the datagram now in udpData
    arrivedIn,         \* session state in force when that datagram arrived
    lastActivity,      \* arrival time of the session's last frame, -1: none
    malformedSeen,     \* a malformed datagram has gone through decoding
    issued,            \* the session id in force at each start(), in order
    \* requests and events of the connector:
    inFlight,          \* recognize requests sent and not yet answered
    lastEvent,         \* <<the sign last passed to OnSignRecognized>>
    recognizedSignText,\* SignBridgeConnector.recognizedSignText.text
    avatarInFlight,    \* avatar requests sent and not yet answered
    errorsLogged,      \* number of Debug.LogError calls of the connector
    availableSigns,    \* SignBridgeConnector.availableSigns
    signsRequests,     \* GetSignsCoroutine runs waiting for their response
    \* the desktop shell's recognizer:
    recognitions,      \* results of recognize-sign for one image, in order
    \* history variables:
    eventSession,      \* session id sent with the request lastEvent answers
    served,            \* the sign lists the backend has answered with
    watch,             \* whether the arrivals between ingest ticks are kept
    burst,             \* datagrams that arrived while recognition was on
                       \* since the last ingest tick, when watch is on
    tracked,           \* one recognized sign's avatar request: its place
                       \* among the outstanding ones and what became of it
    userRecognition,   \* the recognition state last chosen outside a test
    \* SignBridgeHandTracker:
    udpClient,         \* SignBridgeHandTracker.udpClient: "null" | "bound"
    trackerPc,         \* "created" | "receiving" | "threw" (Start threw)
    socketQueue,       \* datagrams in the socket's receive buffer, as bytes
    processed,         \* the texts passed to ProcessHandLandmarks, in order
    \* history variable:
    lastArrival,       \* Time.time of the last datagram received, -1: none,
                       \* when watch is on
    \* the desktop shell (Electron main process):
    appState,          \* "starting" | "running" | "quit"
    platform,          \* process.platform, known once the app is ready
    mainWindow,        \* SignBridgeDesktop.mainWindow: "null" | "window"
    windows,           \* BrowserWindow.getAllWindows().length
    menuThrew,         \* a menu click handler ended in a TypeError
    ipcResult,         \* what the last IPC handler resolved to
    files,             \* the conversations written to disk
    \* the mobile screen (SignBridgeMobile):
    isActive,          \* the camera is started and the Camera is mounted
    conversationHistory, \* the entries shown, oldest first
    currentSign,       \* <<the sign last recognized>>
    takingPhoto,       \* captures waiting for takePhoto, oldest first
    alertShown,        \* the clear-history alert is on the screen
    photosTaken        \* number of captures started

vars == <<isRecognizing, currentSessionId, sessionRequest, udpData,
          nSent, now, isTesting, lastDataTime, statusText,
          testPc, sentForCurrent, arrivedIn, lastActivity, malformedSeen,
          issued, inFlight, lastEvent, recognizedSignText, avatarInFlight,
          errorsLogged, availableSigns, signsRequests, recognitions,
          eventSession, served, watch, burst, tracked, userRecognition,
          udpClient, trackerPc, socketQueue, processed, lastArrival,
          appState, platform, mainWindow, windows, menuThrew, ipcResult,
          files, isActive, conversationHistory, currentSign, takingPhoto,
          alertShown, photosTaken>>

connectorVars == <<isRecognizing, currentSessionId, sessionRequest, nSent>>
testVars == <<isTesting, lastDataTime, statusText, testPc>>
dispatchVars == <<inFlight, lastEvent, recognizedSignText, avatarInFlight,
                  eventSession>>
vocabVars == <<availableSigns, signsRequests, served>>
matcherVars == <<recognitions>>
tickVars == <<watch, burst, lastArrival>>
trackerVars == <<udpClient, trackerPc, socketQueue, processed>>
desktopVars == <<appState, platform, mainWindow, windows, menuThrew,
                 ipcResult, files>>
mobileVars == <<isActive, conversationHistory, currentSign, takingPhoto,
                alertShown, photosTaken>>
ingestVars == <<connectorVars, udpData, now, testVars, sentForCurrent,
                arrivedIn, lastActivity, malformedSeen, issued>>
bridgeVars == <<ingestVars, dispatchVars, errorsLogged, vocabVars,
                matcherVars, tickVars, trackerVars, tracked,
                userRecognition>>

---------------------------------------------------------------------------
(* Bounds of the model. *)
MaxTime == 6
MaxSent == 2
MaxStarts == 2
MaxLatency == 1
MaxBurst == 6
MaxLogged == 2
MaxAvatar == 2
MaxMatches == 2
MaxReloads == 2
MaxDatagrams == 3
MaxPhotos == 2

(* Program constants. *)
NumLandmarks == 21
MinPoints == 63
InactivityTimeout == 5
SimulatedCount == 162

---------------------------------------------------------------------------
(* Text helpers: System.String.Remove, String.Split(','), float.Parse.     *)

Remove(s, startIndex, count) ==
    IF startIndex < 0 \/ count < 0 \/ startIndex + count > Len(s)
    THEN [threw |-> TRUE, val |-> <<>>]
    ELSE [threw |-> FALSE,
          val |-> SubSeq(s, 1, startIndex)
                  \o SubSeq(s, startIndex + count + 1, Len(s))]

(* String.Split(','): the texts between the commas, in order.  The text is *)
(* cut at the comma nearest its middle and the halves are split in turn.   *)
RECURSIVE Split(_)
Split(s) ==
    IF \A i \in 1..Len(s) : s[i] # ","
    THEN <<s>>
    ELSE LET m == (Len(s) + 1) \div 2
             IsComma(k) == k >= 1 /\ k <= Len(s) /\ s[k] = ","
             d == CHOOSE e \in 0..Len(s) : IsComma(m + e) \/ IsComma(m - e)
             i == IF IsComma(m + d) THEN m + d ELSE m - d
         IN  Split(SubSeq(s, 1, i - 1)) \o Split(SubSeq(s, i + 1, Len(s)))

IsDigit(c) == c \in {"0", "1", "2", "3", "4", "5", "6", "7", "8", "9"}

DigitValue(c) ==
    CASE c = "0" -> 0 [] c = "1" -> 1 [] c = "2" -> 2 [] c = "3" -> 3
      [] c = "4" -> 4 [] c = "5" -> 5 [] c = "6" -> 6 [] c = "7" -> 7
      [] c = "8" -> 8 [] c = "9" -> 9

RECURSIVE DigitsValue(_)
DigitsValue(ds) ==
    IF ds = <<>> THEN 0
    ELSE 10 * DigitsValue(SubSeq(ds, 1, Len(ds) - 1)) + DigitValue(ds[Len(ds)])

RECURSIVE TrimStart(_)
TrimStart(t) == IF t # <<>> /\ t[1] = " " THEN TrimStart(Tail(t)) ELSE t

RECURSIVE TrimEnd(_)
TrimEnd(t) ==
    IF t # <<>> /\ t[Len(t)] = " " THEN TrimEnd(SubSeq(t, 1, Len(t) - 1)) ELSE t

Trim(t) == TrimEnd(TrimStart(t))

(* float.Parse on texts over digits, sign, blank and letters: leading and  *)
(* trailing white space and a leading sign are allowed, anything else      *)
(* throws FormatException.                                                 *)
ParseFloat(t) ==
    LET u == Trim(t)
        neg == u # <<>> /\ u[1] = "-"
        body == IF u # <<>> /\ u[1] \in {"-", "+"} THEN Tail(u) ELSE u
    IN  IF body # <<>> /\ \A i \in 1..Len(body) : IsDigit(body[i])
        THEN [threw |-> FALSE,
              val |-> IF neg THEN 0 - DigitsValue(body) ELSE DigitsValue(body)]
        ELSE [threw |-> TRUE, val |-> 0]

---------------------------------------------------------------------------
(* SignBridgeConnector: decoding of one datagram.                          *)

(* A landmark loop that reads y before x. *)
Landmarks_YX(handPoints) ==
    LET used == {i \in 0..(NumLandmarks - 1) : i * 3 + 2 < Len(handPoints)}
        bad == \E i \in used : \E k \in 1..3 :
                   ParseFloat(handPoints[i * 3 + k]).threw
    IN  IF bad
        THEN [threw |-> TRUE, val |-> <<>>]
        ELSE [threw |-> FALSE,
              val |-> [n \in 1..Cardinality(used) |->
                          <<ParseFloat(handPoints[(n - 1) * 3 + 2]).val,
                            ParseFloat(handPoints[(n - 1) * 3 + 1]).val,
                            ParseFloat(handPoints[(n - 1) * 3 + 3]).val>>]]

(* The loop of SendHandDataToSignBridge: 21 landmarks from the first 63    *)
(* points; a float.Parse that throws ends the coroutine before the request *)
(* is sent.                                                                *)
Landmarks(handPoints) ==
    LET used == {i \in 0..(NumLandmarks - 1) : i * 3 + 2 < Len(handPoints)}
        bad == \E i \in used : \E k \in 1..3 :
                   ParseFloat(handPoints[i * 3 + k]).threw
    IN  IF bad
        THEN [threw |-> TRUE, val |-> <<>>]
        ELSE [threw |-> FALSE,
              val |-> [n \in 1..Cardinality(used) |->
                          <<ParseFloat(handPoints[(n - 1) * 3 + 1]).val,
                            ParseFloat(handPoints[(n - 1) * 3 + 2]).val,
                            ParseFloat(handPoints[(n - 1) * 3 + 3]).val>>]]

(* The guard of ProcessHandTrackingData. *)
SessionGate(recognizing) == recognizing

(* The arity test of ProcessHandTrackingData. *)
EnoughPoints(points) == Len(points) >= MinPoints

(* ProcessHandTrackingData with the synchronous part of the coroutine it   *)
(* starts: what happens to the text in udpReceive.data.                    *)
(*   "gated"   the session gate returned                                   *)
(*   "caught"  an exception ended the step (try/catch, coroutine runner)   *)
(*   "dropped" fewer points than required                                  *)
(*   "sent"    a landmark request went to /api/recognize/advanced          *)
ProcessHandTrackingData(data, recognizing) ==
    IF ~SessionGate(recognizing)
    THEN [outcome |-> "gated", landmarks |-> <<>>]
    ELSE LET r1 == Remove(data, 0, 1)
             r2 == Remove(r1.val, Len(r1.val) - 1, 1)
             points == Split(r2.val)
             lm == Landmarks(points)
         IN  IF r1.threw \/ r2.threw
             THEN [outcome |-> "caught", landmarks |-> <<>>]
             ELSE IF ~EnoughPoints(points)
             THEN [outcome |-> "dropped", landmarks |-> <<>>]
             ELSE IF lm.threw
             THEN [outcome |-> "caught", landmarks |-> <<>>]
             ELSE [outcome |-> "sent", landmarks |-> lm.val]

(* GetCurrentSessionId. *)
GetCurrentSessionId == currentSessionId

(* The connector's status line, UpdateStatus: the session state it shows. *)
ConnectorStatus == IF isRecognizing THEN "Recognizing..." ELSE "Ready"

(* The backend's session allocation: f"ht_{int(time.time())}". *)
start_hand_tracking(t) == <<"ht", t>>


---------------------------------------------------------------------------
(* The datagrams the tracker may send: the inputs of the model.  A wire    *)
(* text is a comma-separated list of values, bracket-wrapped or not.       *)

RECURSIVE Join(_, _)
Join(tokens, sep) ==
    IF tokens = <<>> THEN <<>>
    ELSE IF Len(tokens) = 1 THEN tokens[1]
    ELSE LET h == Len(tokens) \div 2
         IN  Join(SubSeq(tokens, 1, h), sep) \o sep
             \o Join(SubSeq(tokens, h + 1, Len(tokens)), sep)

Coordinate(i) == <<<<"1">>, <<"2">>, <<"3">>>>[(i % 3) + 1]
WideCoordinate(i) == <<<<"1", "0">>, <<"2", "5">>, <<"4", "7">>>>[(i % 3) + 1]

Values(n) == [i \in 1..n |-> Coordinate(i)]
WideValues(n) == [i \in 1..n |-> WideCoordinate(i)]

Bracketed(tokens) == <<"[">> \o Join(tokens, <<",", " ">>) \o <<"]">>
Bare(tokens) == Join(tokens, <<",">>)

WithToken(tokens, k, t) == [tokens EXCEPT ![k] = t]

(* 63 values, bracket-wrapped, as the tracker writes a list. *)
ValidBracketed == Bracketed(Values(63))
ValidBracketedWide == Bracketed(WideValues(63))
(* 63 values without brackets, one and two characters wide. *)
ValidBare == Bare(Values(63))
ValidBareWide == Bare(WideValues(63))
(* The bracketed list with white space around it. *)
ValidPadded == <<" ">> \o Bracketed(Values(63)) \o <<" ">>
(* Wrong counts. *)
Short62 == Bracketed(Values(62))
Long64 == Bracketed(Values(64))
Long66 == Bracketed(Values(66))
(* One non-numeric token, at the first, a middle and the last position. *)
NonNumericFirst == Bracketed(WithToken(Values(63), 1, <<"x">>))
NonNumericMiddle == Bracketed(WithToken(Values(63), 32, <<"x">>))
NonNumericLast == Bracketed(WithToken(Values(63), 63, <<"x">>))
(* One non-numeric token behind 63 numeric ones. *)
NonNumericExtra == Bracketed(Values(63) \o <<<<"x">>>>)
(* One non-numeric token at the head of a list without brackets. *)
NonNumericBare == Bare(WithToken(WideValues(63), 1, <<"x", "7">>))
(* Texts too short to hold a list. *)
OneChar == <<"[">>
EmptyList == <<"[", "]">>

Datagrams ==
    {ValidBracketed, ValidBracketedWide, ValidBare, ValidBareWide,
     ValidPadded,
     Short62, Long64, Long66,
     NonNumericFirst, NonNumericMiddle, NonNumericLast, NonNumericExtra,
     NonNumericBare, OneChar, EmptyList}

(* The text TestHandData writes into udpReceive.data: a bracketed list of  *)
(* 162 values.                                                             *)
simulatedData == Bracketed(WideValues(SimulatedCount))

(* The tracker's encoder, which is not part of this repository's sources:  *)
(* the 63 values of a frame in landmark order, written as integers in a    *)
(* bracketed list with ", " between them.                                  *)
RECURSIVE FormatNat(_)
FormatNat(n) ==
    LET digit == <<"0", "1", "2", "3", "4", "5", "6", "7", "8", "9">>
    IN  IF n < 10 THEN <<digit[n + 1]>>
        ELSE FormatNat(n \div 10) \o <<digit[(n % 10) + 1]>>

FormatInt(v) == IF v < 0 THEN <<"-">> \o FormatNat(0 - v) ELSE FormatNat(v)

encode(frame) ==
    Bracketed([i \in 1..(3 * Len(frame)) |->
                  FormatInt(frame[((i - 1) \div 3) + 1][((i - 1) % 3) + 1])])

(* Frames of 21 landmarks with negative, zero and several-digit values. *)
Frame(a, b, c) == [n \in 1..NumLandmarks |-> <<a + n, b - 10 * n, c * n>>]

Frames ==
    {Frame(a, b, c) : a \in {0 - 3, 0, 95}, b \in {0, 5, 210}, c \in {0, 1, 7}}

Encoded == [f \in Frames |-> encode(f)]

EncodedFrames == {Encoded[f] : f \in Frames}

(* The wire format as section 6 of the design states it: optional white    *)
(* space and one optional pair of brackets around comma-separated values.  *)
WireBody(d) ==
    LET t == Trim(d)
    IN  IF Len(t) >= 2 /\ t[1] = "[" /\ t[Len(t)] = "]"
        THEN SubSeq(t, 2, Len(t) - 1)
        ELSE t

WireTokens(d) == IF WireBody(d) = <<>> THEN <<>> ELSE Split(WireBody(d))

IsNumericToken(t) == ~ParseFloat(t).threw

(* A well-formed frame: exactly 63 values, every one numeric. *)
WellFormed(d) ==
    /\ Len(WireTokens(d)) = 63
    /\ \A i \in 1..Len(WireTokens(d)) : IsNumericToken(WireTokens(d)[i])

---------------------------------------------------------------------------
(* The session of the design, read off the run: Idle while recognition is  *)
(* off, Expired once an Active session that saw a frame has seen none for  *)
(* longer than the timeout, Active otherwise.                              *)

DesignExpired ==
    /\ isRecognizing
    /\ lastActivity >= 0
    /\ now - lastActivity > InactivityTimeout

DesignState ==
    IF ~isRecognizing THEN "Idle"
    ELSE IF DesignExpired THEN "Expired"
    ELSE "Active"

(* Texts of the input set that are not well-formed frames. *)
Malformed == {d \in Datagrams : ~WellFormed(d)}

(* The HandFrame the design reads from each well-formed text: its 63      *)
(* values, three to a landmark, in order.                                  *)
DesignFrame ==
    [d \in Datagrams \ Malformed |-> Landmarks(WireTokens(d)).val]

(* What one ingest tick does with each text that can be in udpReceive.data *)
(* while recognition is on.                                                *)
Decoded ==
    [d \in Datagrams \cup {simulatedData} \cup EncodedFrames |->
        ProcessHandTrackingData(d, TRUE)]

---------------------------------------------------------------------------
Constructed ==
    /\ isRecognizing = FALSE
    /\ currentSessionId = <<>>
    /\ sessionRequest = "pending"     \* Start() has sent start-session
    /\ udpData = <<>>
    /\ nSent = 0
    /\ now = 0
    /\ isTesting = FALSE
    /\ lastDataTime = 0
    /\ statusText = "Ready for Testing"
    /\ testPc = "idle"
    /\ sentForCurrent = 0
    /\ arrivedIn = "none"
    /\ lastActivity = 0 - 1
    /\ malformedSeen = FALSE
    /\ issued = <<>>
    /\ inFlight = <<>>
    /\ lastEvent = <<>>
    /\ recognizedSignText = <<>>
    /\ avatarInFlight = 0
    /\ errorsLogged = 0
    /\ availableSigns = <<>>
    /\ signsRequests = 0
    /\ recognitions = <<>>
    /\ eventSession = <<>>
    /\ served = {}
    /\ burst = <<>>
    /\ tracked = [pos |-> 0, result |-> "none"]
    /\ userRecognition = FALSE
    /\ udpClient = "null"
    /\ trackerPc = "created"
    /\ socketQueue = <<>>
    /\ processed = <<>>
    /\ lastArrival = 0 - 1
    /\ appState = "starting"
    /\ platform = "unknown"
    /\ mainWindow = "null"
    /\ windows = 0
    /\ menuThrew = FALSE
    /\ ipcResult = [success |-> FALSE, error |-> "none", filePath |-> "none"]
    /\ files = {}
    /\ isActive = FALSE
    /\ conversationHistory = <<>>
    /\ currentSign = <<>>
    /\ takingPhoto = <<>>
    /\ alertShown = FALSE
    /\ photosTaken = 0

Init == Constructed /\ watch = FALSE

(* The same construction, with the arrivals between ingest ticks kept. *)
InitWatched == Constructed /\ watch = TRUE

(* The arrivals kept for the current ingest tick after text d is stored. *)
Kept(d) == IF watch /\ isRecognizing THEN Append(burst, d) ELSE burst

(* UDPReceive: the receive thread stores the datagram's text in data. *)
DatagramArrives(d) ==
    /\ watch => Len(burst) < MaxBurst
    /\ udpData' = d
    /\ sentForCurrent' = 0
    /\ arrivedIn' = DesignState
    /\ lastActivity' = IF DesignState = "Active" THEN now ELSE lastActivity
    /\ burst' = Kept(d)
    /\ lastArrival' = IF watch THEN now ELSE lastArrival
    /\ UNCHANGED <<connectorVars, testVars, now, malformedSeen, issued,
                   dispatchVars, errorsLogged, vocabVars, matcherVars,
                   trackerVars,
                   desktopVars, mobileVars, tracked, userRecognition, watch>>

(* SetRecognitionState(state): start() when state is true, stop() when it  *)
(* is false.  The session id is left as it is.  This is the call of the    *)
(* button or of another script; the test manager's calls are part of       *)
(* TestSignBridgeConnection.                                               *)
SetRecognitionState(state) ==
    /\ state => Len(issued) < MaxStarts
    /\ isRecognizing' = state
    /\ issued' = IF state THEN Append(issued, currentSessionId) ELSE issued
    /\ lastActivity' = IF state \/ isRecognizing THEN 0 - 1 ELSE lastActivity
    /\ burst' = <<>>
    /\ userRecognition' = state
    /\ UNCHANGED <<currentSessionId, sessionRequest, nSent, udpData, now,
                   testVars, sentForCurrent, arrivedIn, malformedSeen,
                   dispatchVars, errorsLogged, vocabVars, matcherVars,
                   trackerVars,
                   desktopVars, mobileVars, tracked, watch, lastArrival>>

(* ToggleRecognition: the start/stop button. *)
ToggleRecognition == SetRecognitionState(~isRecognizing)

(* StartLearningSession after its yield: the response to start-session     *)
(* arrives (within MaxLatency seconds) or the request fails.               *)
StartLearningSession ==
    /\ sessionRequest = "pending"
    /\ sessionRequest' = "done"
    /\ \E success \in BOOLEAN :
           /\ success => now <= MaxLatency
           /\ currentSessionId' = IF success THEN start_hand_tracking(now)
                                  ELSE currentSessionId
    /\ UNCHANGED <<isRecognizing, nSent, udpData, now, testVars,
                   sentForCurrent, arrivedIn, lastActivity, malformedSeen,
                   issued,
                   dispatchVars, errorsLogged, vocabVars, matcherVars,
                   trackerVars,
                   desktopVars, mobileVars, tracked, userRecognition, tickVars>>

(* Whether this ingest tick sends a landmark request. *)
Sends ==
    /\ udpData # <<>>
    /\ SessionGate(isRecognizing)
    /\ Decoded[udpData].outcome = "sent"

(* Whether this ingest tick ends in an exception, which is logged. *)
Throws ==
    /\ udpData # <<>>
    /\ SessionGate(isRecognizing)
    /\ Decoded[udpData].outcome = "caught"

(* The request SendHandDataToSignBridge builds: the session id is read     *)
(* when the request is built, in the tick that passed the gate.            *)
HandData == [session_id |-> currentSessionId]

(* An ingest tick that waits until the avatar has taken the last sign. *)
Update_WaitsForAvatar ==
    /\ avatarInFlight = 0
    /\ malformedSeen' = (malformedSeen \/
                           (isRecognizing /\ udpData \in Malformed))
    /\ burst' = <<>>
    /\ IF Sends
       THEN /\ nSent < MaxSent
            /\ nSent' = nSent + 1
            /\ sentForCurrent' = sentForCurrent + 1
            /\ inFlight' = Append(inFlight, HandData)
            /\ UNCHANGED errorsLogged
       ELSE IF Throws
       THEN /\ errorsLogged < MaxLogged
            /\ errorsLogged' = errorsLogged + 1
            /\ UNCHANGED <<nSent, sentForCurrent, inFlight>>
       ELSE UNCHANGED <<nSent, sentForCurrent, inFlight, errorsLogged>>
    /\ UNCHANGED <<isRecognizing, currentSessionId, sessionRequest, udpData,
                   now, testVars, arrivedIn, lastActivity, issued, lastEvent,
                   recognizedSignText, avatarInFlight, eventSession,
                   vocabVars, matcherVars,
                   trackerVars,
                   desktopVars, mobileVars, tracked, userRecognition, watch,
                   lastArrival>>

(* SignBridgeConnector.Update: one ingest tick. *)
Update ==
    /\ malformedSeen' = (malformedSeen \/
                           (isRecognizing /\ udpData \in Malformed))
    /\ burst' = <<>>
    /\ IF Sends
       THEN /\ nSent < MaxSent
            /\ nSent' = nSent + 1
            /\ sentForCurrent' = sentForCurrent + 1
            /\ inFlight' = Append(inFlight, HandData)
            /\ UNCHANGED errorsLogged
       ELSE IF Throws
       THEN /\ errorsLogged < MaxLogged
            /\ errorsLogged' = errorsLogged + 1
            /\ UNCHANGED <<nSent, sentForCurrent, inFlight>>
       ELSE UNCHANGED <<nSent, sentForCurrent, inFlight, errorsLogged>>
    /\ UNCHANGED <<isRecognizing, currentSessionId, sessionRequest, udpData,
                   now, testVars, arrivedIn, lastActivity, issued, lastEvent,
                   recognizedSignText, avatarInFlight, eventSession,
                   vocabVars, matcherVars,
                   trackerVars,
                   desktopVars, mobileVars, tracked, userRecognition, watch,
                   lastArrival>>

(* What the backend may answer to a request: the request failed, a        *)
(* response without a recognized sign, or a response with one.  The        *)
(* backend is outside this repository's sources; each answer is possible.  *)
ServerSigns ==
    {[name |-> "Hello", category |-> "greeting", confidence |-> 92],
     [name |-> "Yes", category |-> "response", confidence |-> 85]}

(* The design's confidence threshold, in hundredths.  The connector has    *)
(* none; the value lies between the scores of ServerSigns.                 *)
ConfidenceThreshold == 90

Responses ==
    {[kind |-> "failed"], [kind |-> "empty"]}
        \cup {[kind |-> "sign", recognized_sign |-> sign] : sign \in ServerSigns}

(* seq without its i-th element. *)
Without(seq, i) == SubSeq(seq, 1, i - 1) \o SubSeq(seq, i + 1, Len(seq))

(* The tracked avatar request.  Avatar requests all go to one endpoint and *)
(* their answers are handled alike, so the answers are attributed to the   *)
(* requests in the order sent.  Emitted: a sign is recognized from a frame *)
(* while pending requests are outstanding; if none is tracked, this sign's *)
(* request is.  Answered: the oldest outstanding request is answered.      *)
Emitted(t, pending) ==
    IF t.result = "pending" THEN t
    ELSE [pos |-> pending + 1, result |-> "pending"]

Answered(t, response) ==
    IF t.result # "pending" THEN t
    ELSE IF t.pos > 1 THEN [pos |-> t.pos - 1, result |-> "pending"]
    ELSE [pos |-> 0,
          result |-> IF response.kind = "failed" THEN "failed"
                     ELSE "delivered"]

(* OnSignRecognized that shows the sign and sends nothing to the avatar. *)
OnSignRecognized_DisplayOnly(sign, pending) ==
    /\ pending < MaxAvatar
    /\ lastEvent' = <<sign>>
    /\ recognizedSignText' = <<"Recognized", sign.name, sign.confidence>>
    /\ avatarInFlight' = pending

(* OnSignRecognized with the synchronous part of CreateAvatarFromSign: the *)
(* sign is shown, then the avatar request is sent.  pending is the number  *)
(* of avatar requests outstanding when it is called.                       *)
OnSignRecognized(sign, pending) ==
    /\ pending < MaxAvatar
    /\ lastEvent' = <<sign>>
    /\ recognizedSignText' = <<"Recognized", sign.name, sign.confidence>>
    /\ avatarInFlight' = pending + 1

(* The error branch of SendToSignBridge: Debug.LogError. *)
RequestFailed ==
    /\ errorsLogged < MaxLogged
    /\ errorsLogged' = errorsLogged + 1

(* SendToSignBridge after its yield, for a recognize request: the answer   *)
(* to any outstanding request arrives.                                     *)
RecognizeResponds ==
    /\ inFlight # <<>>
    /\ \E i \in 1..Len(inFlight), response \in Responses :
           /\ inFlight' = Without(inFlight, i)
           /\ IF response.kind = "failed"
              THEN /\ RequestFailed
                   /\ UNCHANGED <<lastEvent, recognizedSignText,
                                  avatarInFlight, eventSession, tracked>>
              ELSE IF response.kind = "empty"
              THEN UNCHANGED <<lastEvent, recognizedSignText, avatarInFlight,
                               eventSession, errorsLogged, tracked>>
              ELSE /\ OnSignRecognized(response.recognized_sign, avatarInFlight)
                   /\ eventSession' = inFlight[i].session_id
                   /\ tracked' = Emitted(tracked, avatarInFlight)
                   /\ UNCHANGED errorsLogged
    /\ UNCHANGED <<ingestVars, vocabVars, matcherVars, trackerVars,
                   desktopVars, mobileVars,
                   userRecognition, tickVars>>

(* SendToSignBridge that sends a failed avatar request again, every time. *)
AvatarResponse_Retries(response) ==
    /\ avatarInFlight > 0
    /\ IF response.kind = "failed"
       THEN /\ RequestFailed
            /\ UNCHANGED <<avatarInFlight, tracked, lastEvent,
                           recognizedSignText, eventSession>>
       ELSE IF response.kind = "empty"
       THEN /\ avatarInFlight' = avatarInFlight - 1
            /\ tracked' = Answered(tracked, response)
            /\ UNCHANGED <<lastEvent, recognizedSignText, eventSession,
                           errorsLogged>>
       ELSE /\ OnSignRecognized(response.recognized_sign, avatarInFlight - 1)
            /\ eventSession' = <<"no frame">>
            /\ tracked' = Answered(tracked, response)
            /\ UNCHANGED errorsLogged
    /\ UNCHANGED <<ingestVars, inFlight, vocabVars, matcherVars, trackerVars,
                   desktopVars, mobileVars,
                   userRecognition, tickVars>>

(* SendToSignBridge after its yield, for an avatar request answered with   *)
(* response.                                                               *)
AvatarResponse(response) ==
    /\ avatarInFlight > 0
    /\ IF response.kind = "failed"
       THEN /\ RequestFailed
            /\ avatarInFlight' = avatarInFlight - 1
            /\ tracked' = Answered(tracked, response)
            /\ UNCHANGED <<lastEvent, recognizedSignText, eventSession>>
       ELSE IF response.kind = "empty"
       THEN /\ avatarInFlight' = avatarInFlight - 1
            /\ tracked' = Answered(tracked, response)
            /\ UNCHANGED <<lastEvent, recognizedSignText, eventSession,
                           errorsLogged>>
       ELSE /\ OnSignRecognized(response.recognized_sign, avatarInFlight - 1)
            /\ eventSession' = <<"no frame">>
            /\ tracked' = Answered(tracked, response)
            /\ UNCHANGED errorsLogged
    /\ UNCHANGED <<ingestVars, inFlight, vocabVars, matcherVars, trackerVars,
                   desktopVars, mobileVars,
                   userRecognition, tickVars>>

AvatarResponds == \E response \in Responses : AvatarResponse(response)

(* The sign lists the backend's /api/signs may answer with: a short one    *)
(* and one of more than five entries.                                      *)
SignLists ==
    {[i \in 1..2 |-> [name |-> <<"hello", "yes">>[i]]],
     [i \in 1..6 |-> [name |-> <<"hello", "yes", "no", "thank_you",
                                 "please", "sorry">>[i]]]}

(* A reload that keeps only the first sign of the answer. *)
Reload_FirstOnly(list, signs) == <<signs[1]>>

(* availableSigns.Clear(); availableSigns.AddRange(response.signs): the    *)
(* list after both calls, which run in one step of the coroutine.          *)
Reload(list, signs) == signs

(* The text GetSignsCoroutine shows: the first five names. *)
SignsText(list) ==
    <<"Available Signs">> \o
    [i \in 1..(IF Len(list) < 5 THEN Len(list) ELSE 5) |-> list[i].name]

(* GetAvailableSignsList. *)
GetAvailableSignsList == availableSigns

(* GetAvailableSigns: the button starts GetSignsCoroutine, which sends its *)
(* request.                                                                *)
GetAvailableSigns ==
    /\ signsRequests < MaxReloads
    /\ signsRequests' = signsRequests + 1
    /\ UNCHANGED <<ingestVars, dispatchVars, errorsLogged, availableSigns,
                   served, matcherVars,
                   trackerVars,
                   desktopVars, mobileVars, tracked, userRecognition, tickVars>>

(* GetSignsCoroutine after its yield: the request failed, the answer       *)
(* carries no list, or the answer carries a list.                          *)
GetSignsCoroutine ==
    /\ signsRequests > 0
    /\ signsRequests' = signsRequests - 1
    /\ \/ /\ RequestFailed
          /\ UNCHANGED <<availableSigns, served, recognizedSignText>>
       \/ UNCHANGED <<availableSigns, served, recognizedSignText,
                      errorsLogged>>
       \/ \E signs \in SignLists :
              /\ availableSigns' = Reload(availableSigns, signs)
              /\ served' = served \cup {signs}
              /\ recognizedSignText' = SignsText(availableSigns')
              /\ UNCHANGED errorsLogged
    /\ UNCHANGED <<ingestVars, inFlight, lastEvent, avatarInFlight,
                   eventSession, matcherVars,
                   trackerVars,
                   desktopVars, mobileVars, tracked, userRecognition, tickVars>>

(* The desktop shell's recognize-sign handler and the mobile screen's      *)
(* capturePhoto: each picks                                                *)
(*     list[Math.floor(Math.random() * list.length)]                       *)
(* from its own list, whatever the image.  Confidence is in hundredths.    *)
Sign(name, confidence) == [name |-> name, confidence |-> confidence]

mockSigns ==
    <<Sign("hello", 90), Sign("yes", 90), Sign("no", 85),
      Sign("thank_you", 85), Sign("please", 85)>>

signsData ==
    mockSigns \o
    <<Sign("sorry", 80), Sign("help", 85), Sign("water", 80),
      Sign("food", 85), Sign("bathroom", 80), Sign("love", 90),
      Sign("happy", 80), Sign("sad", 80), Sign("angry", 85),
      Sign("surprised", 80), Sign("tired", 80), Sign("hungry", 85),
      Sign("thirsty", 85), Sign("emergency", 90), Sign("stop", 95)>>

(* Math.floor(Math.random() * n): any index from 0 to n - 1. *)
RandomIndex(n) == 0..(n - 1)

Vocabulary(matcher) ==
    IF matcher = "recognize-sign" THEN mockSigns ELSE signsData

Recognize(matcher) ==
    /\ Len(recognitions) < MaxMatches
    /\ \E r \in RandomIndex(Len(Vocabulary(matcher))) :
           recognitions' =
               Append(recognitions,
                      [by |-> matcher, sign |-> Vocabulary(matcher)[r + 1]])
    /\ UNCHANGED <<ingestVars, dispatchVars, errorsLogged, vocabVars,
                   tickVars, trackerVars,
                   desktopVars, mobileVars, tracked, userRecognition>>

(* ipcMain.handle('recognize-sign'). *)
RecognizeSign == Recognize("recognize-sign")

(* capturePhoto, when the photo was taken. *)
capturePhoto == Recognize("capturePhoto")

(* SignBridgeTestManager.UpdateStatus. *)
UpdateStatus(testing, time, last) ==
    IF testing THEN "Testing Integration..."
    ELSE IF time - last < InactivityTimeout THEN "Receiving Data"
    ELSE "Waiting for Data"

(* Update without the refresh of lastDataTime. *)
TestManagerUpdate_NoRefresh ==
    /\ statusText' = UpdateStatus(isTesting, now, lastDataTime)
    /\ UNCHANGED <<connectorVars, udpData, now, isTesting, lastDataTime,
                   testPc, sentForCurrent, arrivedIn, lastActivity,
                   malformedSeen, issued,
                   dispatchVars, errorsLogged, vocabVars, matcherVars,
                   trackerVars,
                   desktopVars, mobileVars, tracked, userRecognition, tickVars>>

(* SignBridgeTestManager.Update. *)
TestManagerUpdate ==
    /\ lastDataTime' = IF udpData # <<>> THEN now ELSE lastDataTime
    /\ statusText' = UpdateStatus(isTesting, now, lastDataTime')
    /\ UNCHANGED <<connectorVars, udpData, now, isTesting, testPc,
                   sentForCurrent, arrivedIn, lastActivity, malformedSeen,
                   issued,
                   dispatchVars, errorsLogged, vocabVars, matcherVars,
                   trackerVars,
                   desktopVars, mobileVars, tracked, userRecognition, tickVars>>

(* RunTest up to the WaitForSeconds of TestComponents. *)
RunTest ==
    /\ Len(issued) < MaxStarts      \* every run makes one start()
    /\ isTesting' = TRUE
    /\ statusText' = "Running Integration Test..."
    /\ testPc' = "TestComponents"
    /\ UNCHANGED <<connectorVars, udpData, now, lastDataTime, sentForCurrent,
                   arrivedIn, lastActivity, malformedSeen, issued,
                   dispatchVars, errorsLogged, vocabVars, matcherVars,
                   trackerVars,
                   desktopVars, mobileVars, tracked, userRecognition, tickVars>>

(* StartTest without its look at isTesting. *)
StartTest_Unguarded == RunTest

(* StartTest: the test button. *)
StartTest == IF ~isTesting THEN RunTest ELSE UNCHANGED vars

(* AutoTest: the timer's tick. *)
AutoTest == IF ~isTesting THEN RunTest ELSE UNCHANGED vars

(* TestHandData: the simulated text is written, then two waits. *)
TestHandData ==
    \/ /\ testPc = "TestComponents"
       /\ testPc' = "TestHandData1"
       /\ udpData' = simulatedData
       /\ sentForCurrent' = 0
       /\ arrivedIn' = "simulated"
       /\ burst' = Kept(simulatedData)
       /\ UNCHANGED <<connectorVars, now, isTesting, lastDataTime, statusText,
                      lastActivity, malformedSeen, issued,
                      dispatchVars, errorsLogged, vocabVars, matcherVars,
                   trackerVars,
                   desktopVars, mobileVars, tracked, userRecognition,
                      watch, lastArrival>>
    \/ /\ testPc = "TestHandData1"
       /\ testPc' = "TestHandData2"
       /\ UNCHANGED <<connectorVars, udpData, now, isTesting, lastDataTime,
                      statusText, sentForCurrent, arrivedIn, lastActivity,
                      malformedSeen, issued,
                   dispatchVars, errorsLogged, vocabVars, matcherVars,
                   trackerVars,
                   desktopVars, mobileVars, tracked, userRecognition, tickVars>>

(* TestSignBridgeConnection: recognition on, a wait, recognition off, a    *)
(* wait.                                                                   *)
TestSignBridgeConnection ==
    \/ /\ testPc = "TestHandData2"
       /\ Len(issued) < MaxStarts
       /\ testPc' = "TestConnection1"
       /\ isRecognizing' = TRUE
       /\ issued' = Append(issued, currentSessionId)
       /\ lastActivity' = 0 - 1
       /\ burst' = <<>>
       /\ UNCHANGED <<currentSessionId, sessionRequest, nSent, udpData, now,
                      isTesting, lastDataTime, statusText, sentForCurrent,
                      arrivedIn, malformedSeen,
                      dispatchVars, errorsLogged, vocabVars, matcherVars,
                   trackerVars,
                   desktopVars, mobileVars, tracked, userRecognition,
                      watch, lastArrival>>
    \/ /\ testPc = "TestConnection1"
       /\ testPc' = "TestConnection2"
       /\ isRecognizing' = FALSE
       /\ lastActivity' = 0 - 1
       /\ burst' = <<>>
       /\ UNCHANGED <<currentSessionId, sessionRequest, nSent, udpData, now,
                      isTesting, lastDataTime, statusText, sentForCurrent,
                      arrivedIn, malformedSeen, issued,
                      dispatchVars, errorsLogged, vocabVars, matcherVars,
                   trackerVars,
                   desktopVars, mobileVars, tracked, userRecognition,
                      watch, lastArrival>>

(* RunTest after its third test. *)
RunTestDone ==
    /\ testPc = "TestConnection2"
    /\ testPc' = "idle"
    /\ isTesting' = FALSE
    /\ statusText' = "Test Complete"
    /\ UNCHANGED <<connectorVars, udpData, now, lastDataTime, sentForCurrent,
                   arrivedIn, lastActivity, malformedSeen, issued,
                   dispatchVars, errorsLogged, vocabVars, matcherVars,
                   trackerVars,
                   desktopVars, mobileVars, tracked, userRecognition, tickVars>>

(* A second of Time.time passes. *)
Tick ==
    /\ now < MaxTime
    /\ now' = now + 1
    /\ UNCHANGED <<connectorVars, udpData, testVars, sentForCurrent,
                   arrivedIn, lastActivity, malformedSeen, issued,
                   dispatchVars, errorsLogged, vocabVars, matcherVars,
                   trackerVars,
                   desktopVars, mobileVars, tracked, userRecognition, tickVars>>

---------------------------------------------------------------------------
(* SignBridgeHandTracker: the socket is bound in Start, and a coroutine    *)
(* takes one datagram per pass from the socket, turns its bytes into text  *)
(* and passes the text on.  A datagram is a sequence of bytes.             *)

(* Encoding.UTF8.GetString, for ASCII bytes and for the byte 255, which    *)
(* occurs in no UTF-8 sequence and is decoded as the replacement           *)
(* character U+FFFD.                                                       *)
AsciiChar(byte) ==
    CASE byte = 44 -> ","
      [] byte = 49 -> "1"
      [] byte = 91 -> "["
      [] byte = 93 -> "]"
      [] byte = 120 -> "x"

UTF8GetString(bytes) ==
    [i \in 1..Len(bytes) |->
        IF bytes[i] < 128 THEN AsciiChar(bytes[i]) ELSE "U+FFFD"]

(* Encoding.UTF8.GetBytes: the bytes of a text; U+FFFD is EF BF BD. *)
CharBytes(char) ==
    CASE char = "," -> <<44>>
      [] char = "1" -> <<49>>
      [] char = "[" -> <<91>>
      [] char = "]" -> <<93>>
      [] char = "x" -> <<120>>
      [] char = "U+FFFD" -> <<239, 191, 189>>

RECURSIVE UTF8GetBytes(_)
UTF8GetBytes(text) ==
    IF text = <<>> THEN <<>>
    ELSE CharBytes(Head(text)) \o UTF8GetBytes(Tail(text))

(* The datagrams sent to the tracker's port: "[1,1]", "x" and one byte     *)
(* that is not text.                                                       *)
TrackerDatagrams == {<<91, 49, 44, 49, 93>>, <<120>>, <<255>>}

(* SignBridgeHandTracker.Start: new UdpClient(port) binds the socket or    *)
(* throws (the port is taken), and the exception leaves Start before       *)
(* StartCoroutine is reached.                                              *)
TrackerStart ==
    /\ trackerPc = "created"
    /\ \E bound \in BOOLEAN :
           /\ udpClient' = IF bound THEN "bound" ELSE "null"
           /\ trackerPc' = IF bound THEN "receiving" ELSE "threw"
    /\ UNCHANGED <<ingestVars, dispatchVars, errorsLogged, vocabVars,
                   matcherVars, tickVars, tracked, userRecognition,
                   desktopVars, mobileVars,
                   socketQueue, processed>>

(* A datagram reaches the bound socket and waits in its receive buffer. *)
TrackerDatagramArrives(bytes) ==
    /\ udpClient = "bound"
    /\ Len(socketQueue) + Len(processed) < MaxDatagrams
    /\ socketQueue' = Append(socketQueue, bytes)
    /\ UNCHANGED <<ingestVars, dispatchVars, errorsLogged, vocabVars,
                   matcherVars, tickVars, tracked, userRecognition,
                   desktopVars, mobileVars,
                   udpClient, trackerPc, processed>>

(* ReceiveHandData: one pass of its loop.  If a datagram is available it   *)
(* is received, decoded as UTF-8 and passed to ProcessHandLandmarks.       *)
ReceiveHandData ==
    /\ trackerPc = "receiving"
    /\ IF socketQueue # <<>>
       THEN /\ processed' = Append(processed,
                                   UTF8GetString(Head(socketQueue)))
            /\ socketQueue' = Tail(socketQueue)
       ELSE UNCHANGED <<socketQueue, processed>>
    /\ UNCHANGED <<ingestVars, dispatchVars, errorsLogged, vocabVars,
                   matcherVars, tickVars, tracked, userRecognition,
                   desktopVars, mobileVars,
                   udpClient, trackerPc>>

NextTracker ==
    \/ TrackerStart
    \/ \E bytes \in TrackerDatagrams : TrackerDatagramArrives(bytes)
    \/ ReceiveHandData

SpecTracker == Init /\ [][NextTracker]_vars

---------------------------------------------------------------------------
(* The desktop shell: the Electron main process of SignBridgeDesktop.  Its *)
(* handlers run one at a time on the main process's event loop.            *)

Platforms == {"darwin", "win32", "linux"}

(* createMainWindow: a BrowserWindow is opened and kept in mainWindow. *)
createMainWindow ==
    /\ mainWindow' = "window"
    /\ windows' = windows + 1

(* app.whenReady().then(...): the window, the menu and the IPC handlers. *)
WhenReady(p) ==
    /\ appState = "starting"
    /\ appState' = "running"
    /\ platform' = p
    /\ createMainWindow
    /\ UNCHANGED <<bridgeVars, menuThrew, ipcResult, files, mobileVars>>

(* app.on('activate') that opens a window whatever is open. *)
Activate_Always ==
    /\ appState = "running"
    /\ platform = "darwin"
    /\ createMainWindow
    /\ UNCHANGED <<bridgeVars, appState, platform, menuThrew, ipcResult,
                   files, mobileVars>>

(* app.on('activate'): the dock icon is clicked (macOS). *)
Activate ==
    /\ appState = "running"
    /\ platform = "darwin"
    /\ IF windows = 0
       THEN createMainWindow
       ELSE UNCHANGED <<mainWindow, windows>>
    /\ UNCHANGED <<bridgeVars, appState, platform, menuThrew, ipcResult,
                   files, mobileVars>>

(* The user closes a window: mainWindow.on('closed'), then                 *)
(* app.on('window-all-closed') if it was the last.                         *)
WindowClosed ==
    /\ appState = "running"
    /\ windows > 0
    /\ windows' = windows - 1
    /\ mainWindow' = "null"
    /\ appState' = IF windows' = 0 /\ platform # "darwin" THEN "quit"
                   ELSE appState
    /\ UNCHANGED <<bridgeVars, platform, menuThrew, ipcResult, files,
                   mobileVars>>

(* The click handlers of createMenu, by what they do with mainWindow:      *)
(* most evaluate this.mainWindow.webContents or a method of mainWindow;    *)
(* Open Conversation passes mainWindow to the dialog and evaluates         *)
(* this.mainWindow.webContents when the dialog was not canceled; About     *)
(* passes mainWindow to the dialog; User Guide does not use it.            *)
MenuItems ==
    {"New Conversation", "Open Conversation", "Toggle Fullscreen",
     "About SignBridge", "User Guide"}

Dereferences(item, canceled) ==
    \/ item \in {"New Conversation", "Toggle Fullscreen"}
    \/ item = "Open Conversation" /\ ~canceled

(* A click on a menu item.  The application menu is in the menu bar on     *)
(* macOS and in the window elsewhere.  Reading a property of null ends the *)
(* handler in a TypeError.                                                 *)
MenuClick(item, canceled) ==
    /\ appState = "running"
    /\ platform = "darwin" \/ windows > 0
    /\ menuThrew' = (menuThrew \/
                       (Dereferences(item, canceled) /\ mainWindow = "null"))
    /\ UNCHANGED <<bridgeVars, appState, platform, mainWindow, windows,
                   ipcResult, files, mobileVars>>

(* The Exit item and the quit role: app.quit() closes every window. *)
Quit ==
    /\ appState = "running"
    /\ appState' = "quit"
    /\ windows' = 0
    /\ mainWindow' = "null"
    /\ UNCHANGED <<bridgeVars, platform, menuThrew, ipcResult, files,
                   mobileVars>>

(* What an IPC handler resolves to. *)
Result(success, error, filePath) ==
    [success |-> success, error |-> error, filePath |-> filePath]

(* The defaultPath of the save dialog's options: the expression            *)
(*     signbridge_conversation_.json                                       *)
(* reads a property of an identifier that is declared nowhere, so          *)
(* evaluating it throws a ReferenceError.                                  *)
DefaultPath ==
    [threw |-> TRUE, message |-> "signbridge_conversation_ is not defined"]

(* ipcMain.handle('save-conversation'): answer is what the user does with  *)
(* the save dialog, should it be shown.  Everything runs inside try, and   *)
(* catch resolves to the error's message.                                  *)
SaveConversation(conversationData, answer) ==
    /\ appState = "running"
    /\ windows > 0
    /\ IF DefaultPath.threw
       THEN /\ ipcResult' = Result(FALSE, DefaultPath.message, "none")
            /\ UNCHANGED files
       ELSE IF answer = "cancel"
       THEN /\ ipcResult' = Result(FALSE, "Save cancelled", "none")
            /\ UNCHANGED files
       ELSE IF answer = "confirm, not writable"
       THEN /\ ipcResult' = Result(FALSE, "EACCES", "none")
            /\ UNCHANGED files
       ELSE /\ files' = files \cup {conversationData}
            /\ ipcResult' = Result(TRUE, "none", "chosen.json")
    /\ UNCHANGED <<bridgeVars, appState, platform, mainWindow, windows,
                   menuThrew, mobileVars>>

(* The files load-conversation may be asked for: a conversation, a file    *)
(* that is not JSON and a path with no file.                               *)
FilePaths == {"conversation.json", "broken.json", "missing.json"}

(* ipcMain.handle('load-conversation'): readFileSync and JSON.parse inside *)
(* try, catch resolves to the error's message.                             *)
LoadConversation(filePath) ==
    /\ appState = "running"
    /\ windows > 0
    /\ ipcResult' =
           IF filePath = "missing.json" THEN Result(FALSE, "ENOENT", "none")
           ELSE IF filePath = "broken.json"
           THEN Result(FALSE, "Unexpected token", "none")
           ELSE Result(TRUE, "none", filePath)
    /\ UNCHANGED <<bridgeVars, appState, platform, mainWindow, windows,
                   menuThrew, files, mobileVars>>

SaveAnswers == {"confirm", "cancel", "confirm, not writable"}

NextDesktop ==
    \/ \E p \in Platforms : WhenReady(p)
    \/ Activate
    \/ WindowClosed
    \/ \E item \in MenuItems, canceled \in BOOLEAN : MenuClick(item, canceled)
    \/ Quit
    \/ \E answer \in SaveAnswers : SaveConversation("conversation", answer)
    \/ \E filePath \in FilePaths : LoadConversation(filePath)
    \/ RecognizeSign

SpecDesktop == Init /\ [][NextDesktop]_vars

---------------------------------------------------------------------------
(* The mobile screen: the SignBridgeMobile component.  Its handlers and    *)
(* the continuations of its awaits run one at a time; a state update and   *)
(* the render that follows it are one step.                                *)

(* startCamera and stopCamera: the Camera is mounted while isActive, and   *)
(* cameraRef.current is set exactly while it is mounted.                   *)
startCamera ==
    /\ isActive' = TRUE
    /\ UNCHANGED <<bridgeVars, desktopVars, conversationHistory, currentSign,
                   takingPhoto, alertShown, photosTaken>>

stopCamera ==
    /\ isActive' = FALSE
    /\ UNCHANGED <<bridgeVars, desktopVars, conversationHistory, currentSign,
                   takingPhoto, alertShown, photosTaken>>

(* capturePhoto up to its await: nothing without a camera, else takePhoto  *)
(* is called.  closure is the conversationHistory the handler was          *)
(* rendered with.                                                          *)
TakePhoto ==
    /\ IF isActive
       THEN /\ photosTaken < MaxPhotos
            /\ photosTaken' = photosTaken + 1
            /\ takingPhoto' =
                   Append(takingPhoto, [id |-> photosTaken + 1,
                                        closure |-> conversationHistory])
       ELSE UNCHANGED <<photosTaken, takingPhoto>>
    /\ UNCHANGED <<bridgeVars, desktopVars, isActive, conversationHistory,
                   currentSign, alertShown>>

(* An update of the history that appends to the list the handler was       *)
(* rendered with.                                                          *)
AppendEntry_FromClosure(prev, closure, newEntry) == Append(closure, newEntry)

(* setConversationHistory(prev => [...prev, newEntry]). *)
AppendEntry(prev, closure, newEntry) == Append(prev, newEntry)

(* capturePhoto after its await, for the i-th capture waiting: takePhoto   *)
(* resolved, and entry r of signsData is recognized and appended, or it    *)
(* rejected.  Of the new entry the id is kept.                             *)
TakePhotoSettled(i, resolved, r) ==
    /\ i \in 1..Len(takingPhoto)
    /\ takingPhoto' = Without(takingPhoto, i)
    /\ IF resolved
       THEN /\ currentSign' = <<signsData[r + 1]>>
            /\ conversationHistory' =
                   AppendEntry(conversationHistory, takingPhoto[i].closure,
                               [id |-> takingPhoto[i].id])
       ELSE UNCHANGED <<currentSign, conversationHistory>>
    /\ UNCHANGED <<bridgeVars, desktopVars, isActive, alertShown,
                   photosTaken>>

(* clearHistory: the alert with Cancel and Clear is shown. *)
clearHistory ==
    /\ ~alertShown
    /\ alertShown' = TRUE
    /\ UNCHANGED <<bridgeVars, desktopVars, isActive, conversationHistory,
                   currentSign, takingPhoto, photosTaken>>

(* The alert is answered: Clear empties the history, Cancel does nothing. *)
ClearAnswered(clear) ==
    /\ alertShown
    /\ alertShown' = FALSE
    /\ conversationHistory' = IF clear THEN <<>> ELSE conversationHistory
    /\ UNCHANGED <<bridgeVars, desktopVars, isActive, currentSign,
                   takingPhoto, photosTaken>>

NextMobile ==
    \/ startCamera
    \/ stopCamera
    \/ TakePhoto
    \/ \E i \in 1..MaxPhotos, resolved \in BOOLEAN,
          r \in RandomIndex(Len(signsData)) : TakePhotoSettled(i, resolved, r)
    \/ clearHistory
    \/ \E clear \in BOOLEAN : ClearAnswered(clear)

SpecMobile == Init /\ [][NextMobile]_vars

---------------------------------------------------------------------------
(* The bridge within one second of Time.time: every datagram of the input  *)
(* set, the session commands and the ingest tick.                          *)
Next ==
    \/ \E d \in Datagrams : DatagramArrives(d)
    \/ \E state \in BOOLEAN : SetRecognitionState(state)
    \/ ToggleRecognition
    \/ StartLearningSession
    \/ Update

Spec == Init /\ [][Next]_vars

(* The bridge over time, with the test manager's monitor: a well-formed    *)
(* and a malformed datagram.                                               *)
TimedDatagrams == {ValidBracketed, EmptyList}

NextTimed ==
    \/ \E d \in TimedDatagrams : DatagramArrives(d)
    \/ \E state \in BOOLEAN : SetRecognitionState(state)
    \/ ToggleRecognition
    \/ StartLearningSession
    \/ Update
    \/ TestManagerUpdate
    \/ Tick

SpecTimed == Init /\ [][NextTimed]_vars

(* The test manager's run beside the ingest tick and the start/stop        *)
(* button, within one second.                                              *)
NextTest ==
    \/ DatagramArrives(ValidBracketed)
    \/ ToggleRecognition
    \/ Update
    \/ TestManagerUpdate
    \/ StartTest
    \/ AutoTest
    \/ TestHandData
    \/ TestSignBridgeConnection
    \/ RunTestDone

SpecTest == Init /\ [][NextTest]_vars

(* The test manager's runs on their own, with the scheduling of their      *)
(* coroutine: each yield return new WaitForSeconds(1f) resumes the run a   *)
(* second later, so a step of the run that is due is taken in the end.     *)
NextRun ==
    \/ DatagramArrives(ValidBracketed)
    \/ Update
    \/ TestManagerUpdate
    \/ StartTest
    \/ AutoTest
    \/ TestHandData
    \/ TestSignBridgeConnection
    \/ RunTestDone

SpecRun ==
    /\ Init /\ [][NextRun]_vars
    /\ WF_vars(TestHandData)
    /\ WF_vars(TestSignBridgeConnection)
    /\ WF_vars(RunTestDone)

(* The connector with its backend: requests are answered, signs are       *)
(* shown and passed on to the avatar.                                      *)
NextDispatch ==
    \/ DatagramArrives(ValidBracketed)
    \/ \E state \in BOOLEAN : SetRecognitionState(state)
    \/ StartLearningSession
    \/ Update
    \/ RecognizeResponds
    \/ AvatarResponds

SpecDispatch == Init /\ [][NextDispatch]_vars

(* The same, with the scheduling of the coroutine that waits for an avatar *)
(* request: yield return request.SendWebRequest() resumes it once the      *)
(* request has completed, with a response or with an error, so an          *)
(* outstanding avatar request is answered in the end.                      *)
SpecDispatchFair == SpecDispatch /\ WF_vars(AvatarResponds)

(* The test manager's monitor over time: datagrams arrive or stay away,    *)
(* tests run, and the arrivals are kept.                                   *)
NextMonitor ==
    \/ \E d \in TimedDatagrams : DatagramArrives(d)
    \/ Update
    \/ TestManagerUpdate
    \/ StartTest
    \/ TestHandData
    \/ TestSignBridgeConnection
    \/ RunTestDone
    \/ Tick

SpecMonitor == InitWatched /\ [][NextMonitor]_vars

(* The ingest tick under rapid arrivals: two well-formed frames and a     *)
(* malformed one arrive in any order between ticks, up to MaxBurst of      *)
(* them, and the arrivals of each tick are kept.                           *)
CadenceDatagrams == {ValidBracketed, ValidBracketedWide, NonNumericFirst}

NextCadence ==
    \/ \E d \in CadenceDatagrams : DatagramArrives(d)
    \/ \E state \in BOOLEAN : SetRecognitionState(state)
    \/ Update

SpecCadence == InitWatched /\ [][NextCadence]_vars

(* The well-formed frames among the arrivals b, and the last of them. *)
ValidIn(b) == SelectSeq(b, LAMBDA d : d \notin Malformed)

LastValid(b) == ValidIn(b)[Len(ValidIn(b))]

(* The matchers of the desktop shell and of the mobile screen, invoked on  *)
(* one and the same image.                                                 *)
NextMatcher ==
    \/ RecognizeSign
    \/ capturePhoto

SpecMatcher == Init /\ [][NextMatcher]_vars

(* The contract of match(): the entry with the highest score, the first    *)
(* listed among equals.                                                    *)
FirstBest(vocabulary) ==
    LET best == CHOOSE i \in 1..Len(vocabulary) :
                    /\ \A j \in 1..Len(vocabulary) :
                           vocabulary[j].confidence <= vocabulary[i].confidence
                    /\ \A j \in 1..(i - 1) :
                           vocabulary[j].confidence < vocabulary[i].confidence
    IN  vocabulary[best]

(* The connector while its sign list is reloaded: frames are sent and     *)
(* answered, the list is requested and replaced.                           *)
NextVocabulary ==
    \/ DatagramArrives(ValidBracketed)
    \/ \E state \in BOOLEAN : SetRecognitionState(state)
    \/ Update
    \/ RecognizeResponds
    \/ GetAvailableSigns
    \/ GetSignsCoroutine

SpecVocabulary == Init /\ [][NextVocabulary]_vars

(* The codec alone: the tracker sends encoded frames, the connector        *)
(* decodes them.                                                           *)
TrackerSends(f) == DatagramArrives(Encoded[f])

NextCodec ==
    \/ \E f \in Frames : TrackerSends(f)
    \/ \E state \in BOOLEAN : SetRecognitionState(state)
    \/ Update

SpecCodec == Init /\ [][NextCodec]_vars

---------------------------------------------------------------------------
(* Properties.                                                             *)

(* C1: the matcher is invoked only for a frame delivered while the session *)
(* was Active; a frame delivered while it was Idle or Expired never causes *)
(* a matcher invocation.                                                   *)
C1_MatchedOnlyIfDeliveredActive ==
    [][nSent' # nSent => arrivedIn \notin {"Idle", "Expired"}]_vars

(* C2: a well-formed frame delivered to an Active session yields one       *)
(* matcher invocation, however many ingest ticks pass before the next      *)
(* datagram: never more than one request is sent for it.                   *)
C2_OneInvocationPerFrame ==
    (arrivedIn = "Active" /\ udpData \notin Malformed) => sentForCurrent <= 1

(* C3: a start() while the session is already Active (no stop() between)   *)
(* makes the session id in force before it invalid: the current id is      *)
(* another one afterwards.                                                 *)
C3_RestartReplacesId ==
    [][(Len(issued') > Len(issued) /\ isRecognizing /\ currentSessionId # <<>>)
           => currentSessionId' # currentSessionId]_vars

(* C4: an Active session that saw a frame and then none for longer than    *)
(* the timeout is Expired; a frame that arrives then causes no matcher     *)
(* invocation until start() is called again.                               *)
C4_ExpiredFramesDropped ==
    [][(arrivedIn = "Expired" /\ DesignExpired) => nSent' = nSent]_vars

(* C5: stop() on an Active session invalidates the session id at once:     *)
(* after it the session-id accessor no longer yields the stopped id.       *)
C5_StopInvalidatesId ==
    [][(isRecognizing /\ ~isRecognizing' /\ currentSessionId # <<>>)
           => GetCurrentSessionId' # currentSessionId]_vars

(* C6: every start() puts a session id in force that differs from the id   *)
(* of every earlier start().                                               *)
C6_FreshIdPerStart ==
    [][(Len(issued') > Len(issued) /\ currentSessionId' # <<>>)
           => \A k \in 1..Len(issued) : issued[k] # currentSessionId']_vars

(* C7: while the session is Active, receiving a frame leaves it Active and *)
(* updates the last-activity time, so that a session which keeps receiving *)
(* frames is never shown as timed out ("Waiting for Data").                *)
C7_FrameKeepsSessionActive ==
    [][(isRecognizing /\ udpData # <<>>) =>
          /\ ((\E d \in TimedDatagrams : DatagramArrives(d))
                 \/ Update \/ TestManagerUpdate) => isRecognizing'
          /\ TestManagerUpdate =>
                 /\ lastDataTime' = now
                 /\ statusText' # "Waiting for Data"]_vars

(* C7, reached: a session past the timeout that kept receiving frames is   *)
(* Active and shown as receiving.                                          *)
C7_Witness ==
    /\ isRecognizing
    /\ udpData # <<>>
    /\ now > InactivityTimeout
    /\ lastActivity >= 0
    /\ ~DesignExpired
    /\ lastDataTime = now
    /\ statusText = "Receiving Data"

(* C8: a landmark request is sent only for a payload of exactly 63 values  *)
(* (here: one delivered to an Active session).                             *)
C8_OnlySixtyThreeValues ==
    [][(nSent' # nSent /\ arrivedIn = "Active")
           => Len(WireTokens(udpData)) = 63]_vars

(* C9: a payload holding a non-numeric token, at whatever position, is     *)
(* rejected as a whole: no landmark request is sent for it (here: for one  *)
(* delivered to an Active session).                                        *)
C9_NonNumericRejected ==
    [][(nSent' # nSent /\ arrivedIn = "Active") =>
          \A i \in 1..Len(WireTokens(udpData)) :
              IsNumericToken(WireTokens(udpData)[i])]_vars

(* C10: after malformed datagrams, a well-formed datagram received while   *)
(* the session is Active is decoded and forwarded by the ingest tick.      *)
C10_ValidForwardedAfterMalformed ==
    (malformedSeen /\ isRecognizing /\ arrivedIn = "Active"
        /\ udpData \notin Malformed) => Sends

(* C11: decoding accepts the same 63 values with or without brackets and   *)
(* with or without white space around them, and yields the same HandFrame: *)
(* every well-formed text in udpReceive.data while recognition is on is    *)
(* sent with exactly the landmarks its values spell.                       *)
C11_BracketsAndBlanksOptional ==
    (isRecognizing /\ udpData # <<>> /\ udpData \notin Malformed) =>
        /\ Decoded[udpData].outcome = "sent"
        /\ Decoded[udpData].landmarks = DesignFrame[udpData]


C13_BurstDroppedAndCounted ==
    [][(/\ isRecognizing
        /\ Len(burst) = 6
        /\ \A k \in 1..5 : burst[k] \in Malformed
        /\ burst[6] \notin Malformed
        /\ Update)
         => /\ nSent' = nSent + 1
            /\ Decoded[udpData].landmarks = DesignFrame[burst[6]]
            /\ errorsLogged' = errorsLogged + 5]_vars

(* C14: in every cadence interval in which a valid frame arrived, one      *)
(* frame is forwarded, and it is the most recent valid frame of the        *)
(* interval, also when a malformed datagram arrived after it.              *)
C14_LatestValidForwarded ==
    [][(isRecognizing /\ ValidIn(burst) # <<>> /\ Update)
         => /\ nSent' = nSent + 1
            /\ Decoded[udpData].landmarks = DesignFrame[LastValid(burst)]]_vars


(* C15: at most one frame is in flight to the matcher: the number of       *)
(* recognize requests sent and not yet answered never exceeds one, however *)
(* slowly the matcher answers.                                             *)
C15_OneFrameInFlight ==
    (arrivedIn = "Active" /\ sentForCurrent <= 1) => Len(inFlight) <= 1

(* C16: a slow or unavailable consumer never blocks the ingest path: while *)
(* an avatar delivery is pending the ingest tick can still send the frame  *)
(* at hand; a failed delivery is recorded; and every sign passed on has    *)
(* reached the other consumer, the display.                                *)
C16_ConsumerNeverBlocksIngest ==
    /\ []((avatarInFlight > 0 /\ Sends /\ nSent < MaxSent) => ENABLED Update)
    /\ [][lastEvent' # lastEvent =>
             recognizedSignText' =
                 <<"Recognized", lastEvent'[1].name, lastEvent'[1].confidence>>]_vars
    /\ [][AvatarResponse([kind |-> "failed"]) =>
             errorsLogged' = errorsLogged + 1]_vars

(* C16, reached: a sign has been shown, its avatar delivery is still       *)
(* pending, and a further frame has been sent and is with the matcher.     *)
C16_Witness ==
    /\ avatarInFlight > 0
    /\ lastEvent # <<>>
    /\ recognizedSignText # <<>>
    /\ inFlight # <<>>
    /\ nSent > 1

C20_EventCarriesAdmittingSession ==
    (lastEvent # <<>> /\ eventSession # <<"no frame">>) =>
        /\ "session_id" \in DOMAIN lastEvent[1]
        /\ lastEvent[1].session_id = eventSession


(* C17: match() is deterministic: two invocations of one matcher with the  *)
(* same image and the same vocabulary return the same result.              *)
C17_MatchDeterministic ==
    \A i, j \in 1..Len(recognitions) :
        recognitions[i].by = recognitions[j].by =>
            recognitions[i].sign = recognitions[j].sign

(* C18: match() returns the entry with the highest score over the whole    *)
(* vocabulary, the first listed among equals, whenever it returns an entry *)
(* at all.                                                                 *)
C18_HighestScoreFirstListed ==
    \A i \in 1..Len(recognitions) :
        recognitions[i].sign = FirstBest(Vocabulary(recognitions[i].by))

(* C21: every recognized sign is delivered to each consumer: it is shown   *)
(* in the step that recognizes it, and the avatar request sent for it is   *)
(* in the end answered, delivered unless the request itself failed.        *)
C21_EventuallyDelivered ==
    /\ (tracked.result = "pending") ~>
           (tracked.result \in {"delivered", "failed"})
    /\ [][tracked.result # "pending" /\ tracked'.result = "pending" =>
             /\ recognizedSignText' =
                    <<"Recognized", lastEvent'[1].name,
                      lastEvent'[1].confidence>>
             /\ tracked'.pos = avatarInFlight']_vars

C21_Witness ==
    /\ tracked.result = "delivered"
    /\ lastEvent # <<>>
    /\ recognizedSignText # <<>>

C23_NothingOutlivesStop ==
    [][(~isRecognizing /\ ~isRecognizing') =>
          /\ nSent' = nSent
          /\ lastEvent' = lastEvent
          /\ avatarInFlight' <= avatarInFlight]_vars

(* C24: a frame that arrived while the session was Idle or Expired is a    *)
(* pure no-op for as long as the session is not Active: the steps that     *)
(* read it leave the session state, the session id and the last-activity   *)
(* time as they were, log no error and send nothing to the matcher.        *)
C24_InactiveFrameIsNoOp ==
    [][(/\ arrivedIn \in {"Idle", "Expired"}
        /\ DesignState # "Active"
        /\ (Update \/ TestManagerUpdate)) =>
          UNCHANGED <<isRecognizing, currentSessionId, lastDataTime, nSent,
                      errorsLogged>>]_vars

(* C25: only signs whose score meets the confidence threshold are          *)
(* dispatched: the sign passed to OnSignRecognized, shown and sent to the  *)
(* avatar, never has a score below the threshold.                          *)
C25_OnlyAboveThresholdDispatched ==
    lastEvent # <<>> => lastEvent[1].confidence >= ConfidenceThreshold

(* C26: the tracker never runs its receive loop without a bound socket, a  *)
(* failed bind ends Start with the exception, and every datagram taken     *)
(* from the socket, well-formed or not, is passed on with its bytes        *)
(* unchanged and without a transport error.                                *)
C26_BindFatalDatagramRaw ==
    /\ [](trackerPc = "receiving" => udpClient = "bound")
    /\ [](trackerPc = "threw" => udpClient = "null")
    /\ [][(ReceiveHandData /\ socketQueue # <<>>) =>
             /\ trackerPc' = "receiving"
             /\ Len(processed') = Len(processed) + 1
             /\ UTF8GetBytes(processed'[Len(processed')]) =
                    Head(socketQueue)]_vars

(* C27: dispatching one recognized sign ends with its avatar request: the  *)
(* answer to an avatar request takes that request away and recognizes no   *)
(* sign and sends no avatar request in turn.                               *)
C27_AvatarAnswerEndsDispatch ==
    [][AvatarResponds =>
          /\ avatarInFlight' = avatarInFlight - 1
          /\ lastEvent' = lastEvent]_vars

(* C28: every landmark request carries a session id that came with a       *)
(* successful start-session response: no request is sent while            *)
(* start-session is pending or after it failed, and no outstanding request *)
(* has an empty session id.                                                *)
C28_RequestsCarrySessionId ==
    /\ [](\A i \in 1..Len(inFlight) : inFlight[i].session_id # <<>>)
    /\ [][nSent' # nSent =>
             (sessionRequest = "done" /\ currentSessionId # <<>>)]_vars

(* C29: a test run leaves recognition as the user set it: outside a run    *)
(* recognition is on exactly if the user's last choice was on, and during  *)
(* a run recognition the user left off is never on.                        *)
C29_TestKeepsRecognitionState ==
    /\ ~isTesting => (isRecognizing = userRecognition)
    /\ (isTesting /\ ~userRecognition) => ~isRecognizing

(* C30: every frame sent to the recognition endpoint came in a datagram    *)
(* received on the transport channel: the text the test manager wrote into *)
(* udpReceive.data is never sent.                                          *)
C30_OnlyReceivedFramesForwarded ==
    [][nSent' # nSent => arrivedIn # "simulated"]_vars

(* C31: at most one RunTest runs at a time: isTesting is set exactly while *)
(* a run is between its start and its end, no run starts while one is in   *)
(* progress, whether by the button or by the timer, and every run that     *)
(* started comes to its end and clears isTesting.                          *)
C31_OneRunAtATime ==
    /\ [](isTesting <=> testPc # "idle")
    /\ [][(isTesting /\ testPc # "TestComponents") =>
             testPc' # "TestComponents"]_vars
    /\ isTesting ~> ~isTesting

C31_Witness ==
    /\ ~isTesting
    /\ testPc = "idle"
    /\ statusText = "Test Complete"
    /\ Len(issued) = MaxStarts

(* C32: outside a test run the status the monitor sets is "Receiving Data" *)
(* exactly if a datagram was received less than 5 seconds ago, and         *)
(* "Waiting for Data" before the first datagram and once 5 seconds have    *)
(* passed since the last.                                                  *)
C32_StatusFollowsArrivals ==
    [][(TestManagerUpdate /\ ~isTesting) =>
          /\ statusText' \in {"Receiving Data", "Waiting for Data"}
          /\ statusText' = "Receiving Data" <=>
                 (lastArrival >= 0 /\ now - lastArrival < InactivityTimeout)
      ]_vars

(* C33: no menu click handler reads a property of mainWindow while it is   *)
(* null: no click ends in a TypeError, also after the window was closed    *)
(* with the application still running.                                     *)
C33_MenuNeverDereferencesNull == ~menuThrew

(* C34: the application has at most one window, mainWindow is set exactly  *)
(* while that window is open, and activate opens a window only when none   *)
(* is open.                                                                *)
C34_OneMainWindow ==
    /\ [](windows <= 1)
    /\ [](mainWindow = "window" <=> windows = 1)
    /\ [][(Activate /\ windows > 0) => windows' = windows]_vars

C34_Witness ==
    /\ appState = "running"
    /\ platform = "darwin"
    /\ menuThrew
    /\ windows = 1
    /\ mainWindow = "window"

(* C35: the save and load handlers always resolve to a result with a       *)
(* boolean success: a save the user confirms writes the conversation and   *)
(* resolves to success with the chosen path, a save the user cancels       *)
(* writes nothing and resolves to "Save cancelled", and a load of a file   *)
(* that is unreadable or not JSON resolves to failure with the message.    *)
C35_SaveAndLoadResolve ==
    /\ [](ipcResult.success \in BOOLEAN)
    /\ [][SaveConversation("conversation", "confirm") =>
             /\ ipcResult'.success
             /\ ipcResult'.filePath = "chosen.json"
             /\ "conversation" \in files']_vars
    /\ [][SaveConversation("conversation", "cancel") =>
             /\ ipcResult' = Result(FALSE, "Save cancelled", "none")
             /\ files' = files]_vars
    /\ [][(\E filePath \in {"broken.json", "missing.json"} :
                LoadConversation(filePath)) =>
             (~ipcResult'.success /\ ipcResult'.error # "none")]_vars

(* C36: the conversation history changes only by one entry appended when   *)
(* a capture succeeds and by a confirmed clear: a capture without a camera *)
(* or one that fails leaves it as it is, a cancelled clear leaves it as it *)
(* is, and a capture that succeeds appends its entry to the history as it  *)
(* is then, whatever completed since the capture began.                    *)
C36_HistoryAppendsAndClears ==
    /\ [][conversationHistory' # conversationHistory =>
             \/ /\ Len(takingPhoto') = Len(takingPhoto) - 1
                /\ Len(conversationHistory') = Len(conversationHistory) + 1
                /\ SubSeq(conversationHistory', 1, Len(conversationHistory))
                       = conversationHistory
             \/ /\ alertShown /\ ~alertShown'
                /\ conversationHistory' = <<>>]_vars
    /\ [][(\E i \in 1..MaxPhotos, r \in RandomIndex(Len(signsData)) :
                TakePhotoSettled(i, TRUE, r)) =>
             /\ Len(conversationHistory') = Len(conversationHistory) + 1
             /\ SubSeq(conversationHistory', 1, Len(conversationHistory))
                    = conversationHistory]_vars
    /\ [][(TakePhoto \/ ClearAnswered(FALSE)
              \/ \E i \in 1..MaxPhotos : TakePhotoSettled(i, FALSE, 0)) =>
             conversationHistory' = conversationHistory]_vars

C36_Witness ==
    /\ conversationHistory = <<[id |-> 2], [id |-> 1]>>
    /\ takingPhoto = <<>>
    /\ ~isActive

========================================================================
